---- MODULE Spec2Model ----
(***************************************************************************)
(* Model of src/src/server.ts: the paid `add' tool of the ATXP minimal     *)
(* demo, its payment gate and the elicitation round trip, together with    *)
(* the session registry kept by the POST route.                            *)
(*                                                                         *)
(* The process is a single-threaded event loop.  Every action below is one *)
(* run-to-completion turn of that loop: the arrival of an HTTP request, the*)
(* settlement of an awaited promise together with the continuation of the  *)
(* handler that awaits it, the firing of a timer, or the close event of a  *)
(* transport.  The handler's suspension points are its three awaits        *)
(* (lines 27, 85 and 94).                                                  *)
(*                                                                         *)
(* The libraries the file calls are modelled by the contract of the call:  *)
(*  - requirePayment({price}) either resolves (the charge went through) or *)
(*    rejects; a payment-required rejection carries a freshly created      *)
(*    payment request (the file wraps paymentServer.createPaymentRequest   *)
(*    at lines 135-136 for that purpose);                                  *)
(*  - server.server.elicitInput(params, {relatedRequestId}) sends one      *)
(*    request with the next message id of that server instance, keeps a    *)
(*    response handler under that id and returns a promise settled by the  *)
(*    response with that id, by the close of the connection, or by the     *)
(*    library's request timeout (no `timeout' option is passed).           *)
(***************************************************************************)
EXTENDS Integers, Sequences, FiniteSets, TLC

\* ---------------------------------------------------------------- bounds
MaxSessions == 2
MaxCalls == 2
\* clock ticks in one elicitation timeout
TicksPerTimeout == 1

\* payment requests the payment server hands out (part_001)
MaxPayments == 2
\* milliseconds the clock of part_002 is followed for
MaxClock == 2

SessionIds == 1..MaxSessions
CallIds == 1..MaxCalls
Instances == 1..MaxSessions
\* the (a, b) arguments the client sends with its c-th tool call:
\* (2, 3), (-4, 1), (4, 5), ...
ArgsOf(c) == IF c % 2 = 1 THEN <<c + 1, c + 2>> ELSE <<0 - 2 * c, 1>>

\* ------------------------------------------------------ program constants
\* setTimeout(..., 30000), line 63
ELICITATION_TIMEOUT_MS == 30000
\* the request timeout the library applies when elicitInput gets no
\* `timeout' option (lines 77-82)
DEFAULT_REQUEST_TIMEOUT_MSEC == 60000
\* the code of a payment-required failure, imported at line 9 and spelled
\* out again at line 31
PAYMENT_REQUIRED_ERROR_CODE == "-30402"
\* BigNumber(0.01), line 24
price == "0.01"

TimeoutTicks == TicksPerTimeout
RequestTimeoutTicks ==
    (DEFAULT_REQUEST_TIMEOUT_MSEC * TicksPerTimeout) \div ELICITATION_TIMEOUT_MS

NoId == 0

VARIABLES
    serversBySession,     \* Map<string, McpServer>: sid -> server instance
    transportsBySession,  \* Map<string, StreamableHTTPServerTransport>
    connected,            \* server instances whose transport is attached
    usedSids,             \* session ids the generator has handed out
    handshake,            \* per generated session id: what its initialize
                          \* exchange established (the instance, the
                          \* client's elicitation capability, whether the
                          \* response that carries the id was written)
    nextInst,             \* next server/transport instance to construct
    nextMsgId,            \* per server instance: next outgoing message id
    call,                 \* per tool call: the handler's frame
    pending,              \* response handlers of outstanding elicitations
    sent,                 \* elicitation requests pushed to clients
    payReqs,              \* per call: the payment requests created for it
    lastReply,            \* the error envelope the latest POST wrote itself
                          \* (lines 158, 194, 240), "none" when it wrote
                          \* none
    lastFault,            \* the fault the catch of the latest POST saw
                          \* (lines 233-242): "none", or whether the
                          \* response headers had been sent by then
    \* --- the store-based iteration, src/unnamed/part_001
    elicitationStore,     \* global.__elicitationStore: a Map in insertion
                          \* order, paymentRequestId -> stored response
    pendingPaymentRequests, \* global.__pendingPaymentRequests (its keys)
    invocation,           \* per tool call: the frame of its add handler
    \* --- the transport-store iteration, src/unnamed/part_002
    transportStore,       \* Map<string, {transport, server}>
    now,                  \* Date.now()
    lastRequest           \* what the latest POST or GET did

vars == <<serversBySession, transportsBySession, connected, usedSids,
          handshake, nextInst, nextMsgId, call, pending, sent, payReqs,
          lastReply, lastFault, elicitationStore, pendingPaymentRequests,
          invocation, transportStore, now, lastRequest>>

\* the state of the two earlier iterations, untouched by src/src/server.ts
iterations == <<elicitationStore, pendingPaymentRequests, invocation,
                transportStore, now, lastRequest>>

\* the state of src/src/server.ts
serverVars == <<serversBySession, transportsBySession, connected, usedSids,
                handshake, nextInst, nextMsgId, call, pending, sent, payReqs,
                lastReply, lastFault>>

registry == <<serversBySession, transportsBySession, connected, usedSids,
              handshake, nextInst>>

\* ---------------------------------------------------------------- helpers
Digit(d) ==
    CASE d = 0 -> "0" [] d = 1 -> "1" [] d = 2 -> "2" [] d = 3 -> "3"
      [] d = 4 -> "4" [] d = 5 -> "5" [] d = 6 -> "6" [] d = 7 -> "7"
      [] d = 8 -> "8" [] d = 9 -> "9"

RECURSIVE NatToText(_)
NatToText(n) ==
    IF n < 10 THEN Digit(n) ELSE NatToText(n \div 10) \o Digit(n % 10)

\* mutant of SumText: the sign of a negative sum is lost
SumTextNoSign(a, b) ==
    LET s == a + b IN IF s < 0 THEN NatToText(0 - s) ELSE NatToText(s)

\* `${a + b}` for integer operands, line 104
SumText(a, b) ==
    LET s == a + b IN IF s < 0 THEN "-" \o NatToText(0 - s) ELSE NatToText(s)

NoResult == [kind |-> "none", text |-> ""]
\* line 104
SumResult(a, b) == [kind |-> "ok", text |-> SumText(a, b)]
\* line 100
DeclinedResult ==
    [kind |-> "toolError",
     text |-> "Payment declined. Tool cannot execute without payment."]
\* line 97
NotCompletedResult ==
    [kind |-> "toolError",
     text |-> "Payment not completed. Please complete at paymentRequestUrl"]
\* line 62
TimeoutThrow ==
    [kind |-> "throw", text |-> "Elicitation request timed out after 30 seconds"]
\* the rejection of elicitInput when the connection closes, rethrown by line 85
ClosedThrow == [kind |-> "throw", text |-> "Connection closed"]
\* the rejection of elicitInput on the library's request timeout
RequestTimeoutThrow == [kind |-> "throw", text |-> "Request timed out"]
\* `throw error' at lines 31, 34, 43, 48: the failure of requirePayment itself
\* mutant of Rethrow: a new error is thrown in place of the caught one
RethrowWrapped(err) ==
    [kind |-> "rethrow", text |-> "Payment verification failed",
     error |-> [code |-> "wrapped", hasUrl |-> FALSE]]

Rethrow(err) == [kind |-> "rethrow", text |-> err.code, error |-> err]

\* The frame of one invocation of the add handler.
IdleCall ==
    [pc |-> "idle", session |-> 0, requestId |-> 0, a |-> 0, b |-> 0,
     verifies |-> <<>>,       \* the arguments of each requirePayment call
     paid |-> FALSE,          \* a requirePayment call of this frame resolved
     elicit |-> "none",       \* elicitationPromise: pending, resolved, rejected
     race |-> "none",         \* Promise.race([elicitationPromise, timeoutPromise])
     timer |-> "off",         \* the setTimeout of line 60
     elapsed |-> 0,           \* ticks since the elicitation was sent, while
                              \* the call's clock is followed
     resumes |-> 0,           \* times the handler continued past line 88
     result |-> NoResult]

\* part_001: the frame of one invocation of its add handler
IdleInvocation ==
    [pc |-> "idle", a |-> 0, b |-> 0,
     storedId |-> NoId,       \* storedElicitation.paymentRequestId when the
                              \* accepted path of line 96 was taken
     response |-> 0,          \* the number of the stored response it read
     paid |-> FALSE,          \* a requirePayment call of this frame resolved
     result |-> NoResult]

\* part_002: no request handled yet
NoRequest ==
    [method |-> "none", header |-> NoId, sessionId |-> NoId,
     created |-> FALSE, reply |-> "none"]

Init ==
    /\ serversBySession = <<>>
    /\ transportsBySession = <<>>
    /\ connected = {}
    /\ usedSids = {}
    /\ handshake = <<>>
    /\ nextInst = 1
    /\ nextMsgId = [i \in Instances |-> 0]
    /\ call = [c \in CallIds |-> IdleCall]
    /\ pending = {}
    /\ sent = {}
    /\ payReqs = [c \in CallIds |-> <<>>]
    /\ lastReply = "none"
    /\ lastFault = "none"
    /\ elicitationStore = <<>>
    /\ pendingPaymentRequests = {}
    /\ invocation = [c \in CallIds |-> IdleInvocation]
    /\ transportStore = <<>>
    /\ now = 0
    /\ lastRequest = NoRequest


\* ------------------------------------------------------- Map operations
MapSet(m, k, v) == [x \in (DOMAIN m) \cup {k} |-> IF x = k THEN v ELSE m[x]]
MapDelete(m, k) == [x \in (DOMAIN m) \ {k} |-> m[x]]
MapHas(m, k) == k \in DOMAIN m

\* ------------------------------------------------------ the POST route
\* What the route reads of a POST: the mcp-session-id header (line 148,
\* NoId when there is none), isInitializeRequest(req.body) (lines 149, 157)
\* and req.body.params?.capabilities?.elicitation (line 157).
Requests ==
    [sid : SessionIds \cup {NoId}, isInit : BOOLEAN, elicitation : BOOLEAN]

\* a request on a session, neither an initialization nor capability-bearing
SessionRequest(sid) ==
    [sid |-> sid, isInit |-> FALSE, elicitation |-> FALSE]

\* mutant of Route: the capability check of lines 157-159 is missing
RouteWithoutCapabilityCheck(req) ==
    IF req.sid # NoId /\ MapHas(transportsBySession, req.sid)
    THEN "session"
    ELSE IF req.sid = NoId /\ req.isInit THEN "initialize"
    ELSE "bad_request"

\* mutant of Route: every request without a session header opens a session
RouteCreatesWithoutInit(req) ==
    IF req.isInit /\ ~req.elicitation THEN "capability_error"
    ELSE IF req.sid # NoId /\ MapHas(transportsBySession, req.sid)
         THEN "session"
    ELSE IF req.sid = NoId THEN "initialize"
    ELSE "bad_request"

\* mutant of Route: an initialization request with an unknown session id
\* opens a session
RouteReinitializes(req) ==
    IF req.isInit /\ ~req.elicitation THEN "capability_error"
    ELSE IF req.sid # NoId /\ MapHas(transportsBySession, req.sid)
         THEN "session"
    ELSE IF req.isInit THEN "initialize"
    ELSE "bad_request"

\* lines 157-195: the branch a POST takes
Route(req) ==
    IF req.isInit /\ ~req.elicitation THEN "capability_error"
    ELSE IF req.sid # NoId /\ MapHas(transportsBySession, req.sid)
         THEN "session"
    ELSE IF req.sid = NoId /\ req.isInit THEN "initialize"
    ELSE "bad_request"

\* the client of a session has received the response that told it the id
Acked(sid) == MapHas(handshake, sid) /\ handshake[sid].acked

\* lines 157-159: an initialization request without capabilities.elicitation
PostRejectCapability(req) ==
    /\ Route(req) = "capability_error"
    /\ lastReply' = "-32602"
    /\ lastFault' = "none"
    /\ UNCHANGED iterations
    /\ UNCHANGED <<registry, nextMsgId, call, pending, sent, payReqs>>

\* sessionIdGenerator: () => randomUUID(), line 171: an id never handed out
\* before (the ids are interchangeable, the least unused one is taken)
FreshSids ==
    {sid \in SessionIds \ usedSids :
        \A other \in SessionIds \ usedSids : sid <= other}

\* mutant of PostInitialize: the transport has no onsessioninitialized
PostInitializeUnregistered(req) ==
    /\ Route(req) = "initialize"
    /\ nextInst <= MaxSessions
    /\ \E sid \in FreshSids :
         /\ usedSids' = usedSids \cup {sid}
         /\ handshake' = MapSet(handshake, sid,
                               [inst |-> nextInst,
                                elicitation |-> req.elicitation,
                                acked |-> FALSE])
    /\ connected' = connected \cup {nextInst}
    /\ nextInst' = nextInst + 1
    /\ lastReply' = "none"
    /\ lastFault' = "none"
    /\ UNCHANGED iterations
    /\ UNCHANGED <<serversBySession, transportsBySession, nextMsgId, call,
                   pending, sent, payReqs>>

\* lines 168-191 and 224: a new session.  Server and transport are
\* constructed and connected (the await of line 190 touches nothing
\* shared), then the transport handles the initialize request: it generates
\* the id and calls onsessioninitialized (lines 173-179).  The response is
\* written later, see InitializeAck.
PostInitialize(req) ==
    /\ Route(req) = "initialize"
    /\ nextInst <= MaxSessions
    /\ \E sid \in FreshSids :
         /\ usedSids' = usedSids \cup {sid}
         /\ serversBySession' = MapSet(serversBySession, sid, nextInst)
         /\ transportsBySession' = MapSet(transportsBySession, sid, nextInst)
         /\ handshake' = MapSet(handshake, sid,
                               [inst |-> nextInst,
                                elicitation |-> req.elicitation,
                                acked |-> FALSE])
    /\ connected' = connected \cup {nextInst}
    /\ nextInst' = nextInst + 1
    /\ lastReply' = "none"
    /\ lastFault' = "none"
    /\ UNCHANGED iterations
    /\ UNCHANGED <<nextMsgId, call, pending, sent, payReqs>>

\* line 224 for the initialize request: the connected server answers and
\* the transport writes the response with the Mcp-Session-Id header on the
\* open channel; from then on the client can name the session.
InitializeAck(sid) ==
    /\ MapHas(handshake, sid) /\ ~handshake[sid].acked
    /\ handshake[sid].inst \in connected
    /\ handshake' = [handshake EXCEPT ![sid].acked = TRUE]
    /\ UNCHANGED <<serversBySession, transportsBySession, connected,
                   usedSids, nextInst, nextMsgId, call, pending, sent,
                   payReqs, lastReply, lastFault, iterations>>

\* lines 192-195: neither a known session nor a session-less initialization
PostBadRequest(req) ==
    /\ Route(req) = "bad_request"
    /\ lastReply' = "-32000"
    /\ lastFault' = "none"
    /\ UNCHANGED iterations
    /\ UNCHANGED <<registry, nextMsgId, call, pending, sent, payReqs>>

\* mutant of PostFault: the catch writes its envelope unconditionally
PostFaultAlwaysWrites(req, headersSent) ==
    /\ Route(req) \in {"session", "initialize"}
    /\ lastFault' = IF headersSent THEN "after_headers" ELSE "before_headers"
    /\ UNCHANGED iterations
    /\ lastReply' = "-32603"
    /\ UNCHANGED <<registry, nextMsgId, call, pending, sent, payReqs>>

\* lines 161-242: something inside the try (getServer, server.connect,
\* transport.handleRequest) throws before the request takes effect; the
\* catch writes the -32603 envelope unless res.headersSent (line 239).
\* headersSent tells whether the transport had begun to answer by then.
PostFault(req, headersSent) ==
    /\ Route(req) \in {"session", "initialize"}
    /\ lastFault' = IF headersSent THEN "after_headers" ELSE "before_headers"
    /\ UNCHANGED iterations
    /\ lastReply' = IF headersSent THEN "none" ELSE "-32603"
    /\ UNCHANGED <<registry, nextMsgId, call, pending, sent, payReqs>>

\* ------------------------------------------------------ the add handler
\* requirePayment({price}), lines 27 and 94: the charge is named by its
\* price alone, no payment request id is passed.
RequirePaymentArgs == [price |-> price, paymentRequestId |-> NoId]

IsPaymentRequired(code) ==
    code = PAYMENT_REQUIRED_ERROR_CODE \/ code = "-30402"

\* the JSON-RPC id of the next request of a session's client: a client
\* numbers the requests of its session
NextRequestId(sid) ==
    1 + Cardinality({d \in CallIds : call[d].pc # "idle" /\ call[d].session = sid})

\* mutant of PostToolCall: a tool call is accepted only while no other call
\* awaits its elicitation
PostToolCallOneAtATime(c, sid) ==
    /\ call[c].pc = "idle"
    /\ \A d \in CallIds : d < c => call[d].pc # "idle"
    /\ \A d \in CallIds : call[d].pc # "eliciting"
    /\ Acked(sid) /\ Route(SessionRequest(sid)) = "session"
    /\ call' = [call EXCEPT ![c] =
                  [@ EXCEPT !.pc = "verify1", !.session = sid,
                            !.requestId = NextRequestId(sid),
                            !.a = ArgsOf(c)[1], !.b = ArgsOf(c)[2],
                            !.verifies = <<RequirePaymentArgs>>]]
    /\ lastReply' = "none"
    /\ lastFault' = "none"
    /\ UNCHANGED iterations
    /\ UNCHANGED <<registry, nextMsgId, pending, sent, payReqs>>

\* lines 22-27 reached through lines 164-167 and 224: a tools/call request
\* on a registered session runs the handler up to its first await.
\* Frames are taken in the order of their numbers.
PostToolCall(c, sid) ==
    /\ call[c].pc = "idle"
    /\ \A d \in CallIds : d < c => call[d].pc # "idle"
    /\ Acked(sid) /\ Route(SessionRequest(sid)) = "session"
    /\ call' = [call EXCEPT ![c] =
                  [@ EXCEPT !.pc = "verify1", !.session = sid,
                            !.requestId = NextRequestId(sid),
                            !.a = ArgsOf(c)[1], !.b = ArgsOf(c)[2],
                            !.verifies = <<RequirePaymentArgs>>]]
    /\ lastReply' = "none"
    /\ lastFault' = "none"
    /\ UNCHANGED iterations
    /\ UNCHANGED <<registry, nextMsgId, pending, sent, payReqs>>

\* line 27 resolves, line 104
FirstVerifyPaid(c) ==
    /\ call[c].pc = "verify1"
    /\ call' = [call EXCEPT ![c] =
                  [@ EXCEPT !.pc = "returned", !.paid = TRUE,
                            !.result = SumResult(call[c].a, call[c].b)]]
    /\ UNCHANGED <<registry, nextMsgId, pending, sent, payReqs, lastReply, lastFault, iterations>>

\* the id of the payment request a payment-required rejection carries: a
\* new one for every rejection (at most two per call)
NewPayReq(c) == 2 * (c - 1) + Len(payReqs[c]) + 1
CreatePayReq(c) == [payReqs EXCEPT ![c] = Append(@, NewPayReq(c))]

\* mutant of MustRethrow: the test of line 34 is missing
MustRethrowIgnoresUrl(err, sid) ==
    \/ ~IsPaymentRequired(err.code)
    \/ ~MapHas(serversBySession, sid)
    \/ /\ MapHas(serversBySession, sid)
       /\ serversBySession[sid] \notin connected

\* lines 29-49: the conditions under which the caught failure is rethrown
\* instead of being turned into an elicitation
MustRethrow(err, sid) ==
    \/ ~IsPaymentRequired(err.code)                 \* line 31
    \/ ~err.hasUrl                                  \* line 34
    \/ ~MapHas(serversBySession, sid)               \* lines 40-44
    \/ /\ MapHas(serversBySession, sid)            \* lines 46-49
       /\ serversBySession[sid] \notin connected

\* line 27 rejects and the failure leaves the handler (lines 31, 34, 43, 48)
FirstVerifyRethrow(c, err) ==
    /\ call[c].pc = "verify1"
    /\ MustRethrow(err, call[c].session)
    /\ payReqs' = IF IsPaymentRequired(err.code)
                  THEN CreatePayReq(c) ELSE payReqs
    /\ call' = [call EXCEPT ![c] =
                  [@ EXCEPT !.pc = "thrown", !.result = Rethrow(err)]]
    /\ UNCHANGED <<registry, nextMsgId, pending, sent, lastReply, lastFault, iterations>>

\* mutant of FirstVerifyElicit: the elicitation request is sent twice
FirstVerifyElicitTwice(c, err) ==
    /\ call[c].pc = "verify1"
    /\ LET sid == call[c].session
       IN /\ ~MustRethrow(err, sid)
          /\ LET inst == serversBySession[sid]
                 first == nextMsgId[inst]
             IN /\ sent' = sent \cup
                       {[inst |-> inst, msgId |-> m, call |-> c,
                         relatedRequestId |-> call[c].requestId] :
                            m \in {first, first + 1}}
                /\ pending' = pending \cup
                       {[inst |-> inst, msgId |-> m, call |-> c] :
                            m \in {first, first + 1}}
                /\ nextMsgId' = [nextMsgId EXCEPT ![inst] = @ + 2]
          /\ payReqs' = CreatePayReq(c)
          /\ call' = [call EXCEPT ![c] =
                        [@ EXCEPT !.pc = "eliciting",
                                  !.elicit = "pending", !.race = "pending",
                                  !.timer = "armed", !.elapsed = 0]]
    /\ UNCHANGED <<registry, lastReply, lastFault, iterations>>

\* line 27 rejects with payment required and lines 33-88 send the
\* elicitation, start the timer and suspend on the race
FirstVerifyElicit(c, err) ==
    /\ call[c].pc = "verify1"
    /\ LET sid == call[c].session
       IN /\ ~MustRethrow(err, sid)
          /\ LET inst == serversBySession[sid]
                 msg == [inst |-> inst, msgId |-> nextMsgId[inst], call |-> c]
             IN /\ sent' = sent \cup
                       {[inst |-> inst, msgId |-> nextMsgId[inst], call |-> c,
                         relatedRequestId |-> call[c].requestId]}
                /\ pending' = pending \cup {msg}
                /\ nextMsgId' = [nextMsgId EXCEPT ![inst] = @ + 1]
          /\ payReqs' = CreatePayReq(c)
          /\ call' = [call EXCEPT ![c] =
                        [@ EXCEPT !.pc = "eliciting",
                                  !.elicit = "pending", !.race = "pending",
                                  !.timer = "armed", !.elapsed = 0]]
    /\ UNCHANGED <<registry, lastReply, lastFault, iterations>>


\* mutant of Continue: only the action 'decline' is treated as a refusal
ContinueOnlyDeclineRefuses(f, outcome) ==
    LET g == [f EXCEPT !.race = outcome, !.resumes = @ + 1]
    IN CASE outcome = "decline" ->
              [g EXCEPT !.pc = "returned", !.result = DeclinedResult]
         [] outcome = "timeout" ->
              [g EXCEPT !.pc = "thrown", !.result = TimeoutThrow]
         [] outcome = "closed" ->
              [g EXCEPT !.pc = "thrown", !.result = ClosedThrow]
         [] outcome = "request_timeout" ->
              [g EXCEPT !.pc = "thrown", !.result = RequestTimeoutThrow]
         [] OTHER ->
              [g EXCEPT !.pc = "verify2",
                        !.verifies = Append(@, RequirePaymentArgs)]

\* mutant of Continue: every resolved elicitation is treated as an accept
ContinueResolvedAsAccept(f, outcome) ==
    LET g == [f EXCEPT !.race = outcome, !.resumes = @ + 1]
    IN CASE outcome = "timeout" ->
              [g EXCEPT !.pc = "thrown", !.result = TimeoutThrow]
         [] outcome = "closed" ->
              [g EXCEPT !.pc = "thrown", !.result = ClosedThrow]
         [] outcome = "request_timeout" ->
              [g EXCEPT !.pc = "thrown", !.result = RequestTimeoutThrow]
         [] OTHER ->
              [g EXCEPT !.pc = "verify2",
                        !.verifies = Append(@, RequirePaymentArgs)]

\* lines 85-101: the handler continues from the race with its outcome.
\* A resolved race carries the elicitation result (lines 92-101); a rejected
\* race throws out of the handler at line 85.
Continue(f, outcome) ==
    LET g == [f EXCEPT !.race = outcome, !.resumes = @ + 1]
    IN CASE outcome = "accept" ->
              [g EXCEPT !.pc = "verify2",
                        !.verifies = Append(@, RequirePaymentArgs)]
         [] outcome = "timeout" ->
              [g EXCEPT !.pc = "thrown", !.result = TimeoutThrow]
         [] outcome = "closed" ->
              [g EXCEPT !.pc = "thrown", !.result = ClosedThrow]
         [] outcome = "request_timeout" ->
              [g EXCEPT !.pc = "thrown", !.result = RequestTimeoutThrow]
         [] OTHER ->
              [g EXCEPT !.pc = "returned", !.result = DeclinedResult]

\* mutant of RaceSettle: every settlement continues the handler
RaceSettleEvery(f, outcome) == Continue(f, outcome)

\* Promise.race, lines 85-88: the first promise to settle settles the race,
\* a later settlement of the other one has no effect
RaceSettle(f, outcome) ==
    IF f.race = "pending" THEN Continue(f, outcome) ELSE f

\* A call's clock is followed while a timer can still settle one of its
\* promises: the 30 s timer while the race is pending, the request timeout
\* while elicitationPromise is.  The 30 s timer of a race that is already
\* settled is never cleared; it fires at some later moment, which is not
\* followed.
ClockRuns(f) ==
    (f.timer = "armed" /\ f.race = "pending") \/ f.elicit = "pending"
TimerDue(f) ==
    \/ f.timer = "armed" /\ f.race = "pending" /\ f.elapsed >= TimeoutTicks
    \/ f.elicit = "pending" /\ f.elapsed >= RequestTimeoutTicks

\* the clock of a call is read only while it is followed
StopClock(f) == IF ClockRuns(f) THEN f ELSE [f EXCEPT !.elapsed = 0]

\* the result.action values a client may answer with
Actions == {"accept", "decline", "cancel"}

\* mutant of Matching: the response goes to every wait of the session
MatchingAnyOfSession(sid, msgId) ==
    {p \in pending : p.inst = transportsBySession[sid]}

\* the response handlers a JSON-RPC response (sid, msgId) is dispatched to:
\* the request goes to the transport of its session header (lines 164-167,
\* 224) and the server instance of that transport looks the id up
Matching(sid, msgId) ==
    {p \in pending : p.inst = transportsBySession[sid] /\ p.msgId = msgId}

\* lines 164-167 and 224 with an elicitation response as the body: the
\* matching elicitationPromise resolves and its handler continues
PostElicitationResponse(sid, msgId, action) ==
    /\ Acked(sid) /\ Route(SessionRequest(sid)) = "session"
    /\ LET ms == Matching(sid, msgId)
           cs == {p.call : p \in ms}
       IN /\ pending' = pending \ ms
          /\ call' = [c \in CallIds |->
                        IF c \in cs
                        THEN StopClock(RaceSettle(
                                 [call[c] EXCEPT !.elicit = "resolved"], action))
                        ELSE call[c]]
    /\ lastReply' = "none"
    /\ lastFault' = "none"
    /\ UNCHANGED iterations
    /\ UNCHANGED <<registry, nextMsgId, sent, payReqs>>

\* mutant of TimerFires: the callback does not reject timeoutPromise
TimerFiresWithoutReject(c) ==
    /\ call[c].timer = "armed"
    /\ call[c].race = "pending" => call[c].elapsed >= TimeoutTicks
    /\ call' = [call EXCEPT ![c] = [@ EXCEPT !.timer = "fired"]]
    /\ UNCHANGED <<registry, nextMsgId, pending, sent, payReqs, lastReply, lastFault, iterations>>

\* lines 59-64: the 30 s timer rejects timeoutPromise
TimerFires(c) ==
    /\ call[c].timer = "armed"
    /\ call[c].race = "pending" => call[c].elapsed >= TimeoutTicks
    /\ call' = [call EXCEPT ![c] =
                  StopClock(RaceSettle([@ EXCEPT !.timer = "fired"], "timeout"))]
    /\ UNCHANGED <<registry, nextMsgId, pending, sent, payReqs, lastReply, lastFault, iterations>>

\* mutant of RequestTimesOut: the response handler is left behind
RequestTimesOutKeepsHandler(c) ==
    /\ call[c].elicit = "pending"
    /\ call[c].elapsed >= RequestTimeoutTicks
    /\ call' = [call EXCEPT ![c] =
                  StopClock(RaceSettle([@ EXCEPT !.elicit = "rejected"],
                                       "request_timeout"))]
    /\ UNCHANGED <<registry, nextMsgId, pending, sent, payReqs, lastReply, lastFault, iterations>>

\* lines 77-82: the request timeout of elicitInput drops the response
\* handler and rejects elicitationPromise
RequestTimesOut(c) ==
    /\ call[c].elicit = "pending"
    /\ call[c].elapsed >= RequestTimeoutTicks
    /\ pending' = {p \in pending : p.call # c}
    /\ call' = [call EXCEPT ![c] =
                  StopClock(RaceSettle([@ EXCEPT !.elicit = "rejected"],
                                       "request_timeout"))]
    /\ UNCHANGED <<registry, nextMsgId, sent, payReqs, lastReply, lastFault, iterations>>

\* time advances by one tick; a timer that is due fires before it does
Tick ==
    /\ \E c \in CallIds : ClockRuns(call[c])
    /\ \A c \in CallIds : ~TimerDue(call[c])
    /\ call' = [c \in CallIds |->
                  IF ClockRuns(call[c])
                  THEN [call[c] EXCEPT !.elapsed = @ + 1] ELSE call[c]]
    /\ UNCHANGED <<registry, nextMsgId, pending, sent, payReqs, lastReply, lastFault, iterations>>

\* mutant of TransportClose: only the registry entries are removed
TransportCloseRegistryOnly(sid) ==
    /\ MapHas(transportsBySession, sid)
    /\ transportsBySession' = MapDelete(transportsBySession, sid)
    /\ serversBySession' = MapDelete(serversBySession, sid)
    /\ connected' = connected \ {transportsBySession[sid]}
    /\ UNCHANGED <<usedSids, handshake, nextInst, nextMsgId, call, pending,
                   sent, payReqs, lastReply, lastFault, iterations>>

\* mutant of TransportClose: the transport has no onclose of lines 182-189
TransportCloseKeepsRegistry(sid) ==
    /\ MapHas(transportsBySession, sid)
    /\ transportsBySession[sid] \in connected
    /\ LET inst == transportsBySession[sid]
           ms == {p \in pending : p.inst = inst}
           cs == {p.call : p \in ms}
       IN /\ connected' = connected \ {inst}
          /\ pending' = pending \ ms
          /\ call' = [c \in CallIds |->
                        IF c \in cs
                        THEN StopClock(RaceSettle(
                                 [call[c] EXCEPT !.elicit = "rejected"], "closed"))
                        ELSE call[c]]
    /\ UNCHANGED <<serversBySession, transportsBySession, usedSids,
                   handshake, nextInst, nextMsgId, sent, payReqs, lastReply, lastFault, iterations>>

\* mutant of TransportClose: onclose deletes from transportsBySession only
TransportCloseTransportOnly(sid) ==
    /\ MapHas(transportsBySession, sid)
    /\ LET inst == transportsBySession[sid]
           ms == {p \in pending : p.inst = inst}
           cs == {p.call : p \in ms}
       IN /\ transportsBySession' = MapDelete(transportsBySession, sid)
          /\ connected' = connected \ {inst}
          /\ pending' = pending \ ms
          /\ call' = [c \in CallIds |->
                        IF c \in cs
                        THEN StopClock(RaceSettle(
                                 [call[c] EXCEPT !.elicit = "rejected"], "closed"))
                        ELSE call[c]]
    /\ UNCHANGED <<serversBySession, usedSids, handshake, nextInst,
                   nextMsgId, sent, payReqs, lastReply, lastFault, iterations>>

\* lines 182-189, then the close handling of the connected server: both
\* registry entries go, the server loses its transport and every
\* outstanding request of that server is rejected
TransportClose(sid) ==
    /\ MapHas(transportsBySession, sid)
    /\ LET inst == transportsBySession[sid]
           ms == {p \in pending : p.inst = inst}
           cs == {p.call : p \in ms}
       IN /\ transportsBySession' = MapDelete(transportsBySession, sid)
          /\ serversBySession' = MapDelete(serversBySession, sid)
          /\ connected' = connected \ {inst}
          /\ pending' = pending \ ms
          /\ call' = [c \in CallIds |->
                        IF c \in cs
                        THEN StopClock(RaceSettle(
                                 [call[c] EXCEPT !.elicit = "rejected"], "closed"))
                        ELSE call[c]]
    /\ UNCHANGED <<usedSids, handshake, nextInst, nextMsgId, sent, payReqs,
                   lastReply, lastFault, iterations>>

\* mutant of ReVerifyPaid: the result is built from one operand only
ReVerifyPaidDropsOperand(c) ==
    /\ call[c].pc = "verify2"
    /\ call' = [call EXCEPT ![c] =
                  [@ EXCEPT !.pc = "returned", !.paid = TRUE,
                            !.result = SumResult(call[c].a, 0)]]
    /\ UNCHANGED <<registry, nextMsgId, pending, sent, payReqs, lastReply, lastFault, iterations>>

\* line 94 resolves, line 104
ReVerifyPaid(c) ==
    /\ call[c].pc = "verify2"
    /\ call' = [call EXCEPT ![c] =
                  [@ EXCEPT !.pc = "returned", !.paid = TRUE,
                            !.result = SumResult(call[c].a, call[c].b)]]
    /\ UNCHANGED <<registry, nextMsgId, pending, sent, payReqs, lastReply, lastFault, iterations>>

\* mutant of ReVerifyFails: the catch falls through to line 104
ReVerifyFailsFallsThrough(c, err) ==
    /\ call[c].pc = "verify2"
    /\ payReqs' = IF IsPaymentRequired(err.code)
                  THEN CreatePayReq(c) ELSE payReqs
    /\ call' = [call EXCEPT ![c] =
                  [@ EXCEPT !.pc = "returned",
                            !.result = SumResult(call[c].a, call[c].b)]]
    /\ UNCHANGED <<registry, nextMsgId, pending, sent, lastReply, lastFault, iterations>>

\* mutant of ReVerifyFails: the catch repeats the test of line 31
ReVerifyFailsPropagatesOther(c, err) ==
    /\ call[c].pc = "verify2"
    /\ payReqs' = IF IsPaymentRequired(err.code)
                  THEN CreatePayReq(c) ELSE payReqs
    /\ call' = [call EXCEPT ![c] =
                  IF IsPaymentRequired(err.code)
                  THEN [@ EXCEPT !.pc = "returned",
                                 !.result = NotCompletedResult]
                  ELSE [@ EXCEPT !.pc = "thrown", !.result = Rethrow(err)]]
    /\ UNCHANGED <<registry, nextMsgId, pending, sent, lastReply, lastFault, iterations>>

\* mutant of ReVerifyFails: a failed re-verification verifies again
ReVerifyFailsRetries(c, err) ==
    /\ call[c].pc = "verify2"
    /\ payReqs' = IF IsPaymentRequired(err.code)
                  THEN CreatePayReq(c) ELSE payReqs
    /\ call' = [call EXCEPT ![c] =
                  [@ EXCEPT !.verifies = Append(@, RequirePaymentArgs)]]
    /\ UNCHANGED <<registry, nextMsgId, pending, sent, lastReply, lastFault, iterations>>

\* line 94 rejects, lines 96-98
ReVerifyFails(c, err) ==
    /\ call[c].pc = "verify2"
    /\ payReqs' = IF IsPaymentRequired(err.code)
                  THEN CreatePayReq(c) ELSE payReqs
    /\ call' = [call EXCEPT ![c] =
                  [@ EXCEPT !.pc = "returned", !.result = NotCompletedResult]]
    /\ UNCHANGED <<registry, nextMsgId, pending, sent, lastReply, lastFault, iterations>>

\* the failures of requirePayment: payment required, with or without a
\* paymentRequestUrl in its data, and any other failure (which has none)
Failures ==
    {[code |-> PAYMENT_REQUIRED_ERROR_CODE, hasUrl |-> TRUE],
     [code |-> PAYMENT_REQUIRED_ERROR_CODE, hasUrl |-> FALSE],
     [code |-> "other", hasUrl |-> FALSE],
     [code |-> "other", hasUrl |-> TRUE]}
MsgIds == 0..(MaxCalls - 1)

Next ==
    \/ \E req \in Requests : PostInitialize(req)
    \/ \E sid \in SessionIds : InitializeAck(sid)
    \/ \E c \in CallIds, sid \in SessionIds : PostToolCall(c, sid)
    \/ \E c \in CallIds : FirstVerifyPaid(c)
    \/ \E c \in CallIds, err \in Failures : FirstVerifyRethrow(c, err)
    \/ \E c \in CallIds, err \in Failures : FirstVerifyElicit(c, err)
    \/ \E sid \in SessionIds, msgId \in MsgIds, action \in Actions :
         PostElicitationResponse(sid, msgId, action)
    \/ \E c \in CallIds : TimerFires(c)
    \/ \E c \in CallIds : RequestTimesOut(c)
    \/ Tick
    \/ \E sid \in SessionIds : TransportClose(sid)
    \/ \E c \in CallIds : ReVerifyPaid(c)
    \/ \E c \in CallIds, err \in Failures : ReVerifyFails(c, err)

Spec == Init /\ [][Next]_vars

\* The POST route with the requests it answers itself.
NextPost ==
    \/ Next
    \/ \E req \in Requests : PostRejectCapability(req)
    \/ \E req \in Requests : PostBadRequest(req)
    \/ \E req \in Requests, headersSent \in BOOLEAN :
         PostFault(req, headersSent)

SpecPost == Init /\ [][NextPost]_vars

\* Timers fire when they are due and time does not stop: the event loop
\* runs every expired setTimeout callback.
Fairness ==
    /\ WF_vars(Tick)
    /\ \A c \in CallIds : WF_vars(TimerFires(c))
    /\ \A c \in CallIds : WF_vars(RequestTimesOut(c))

LiveSpec == Init /\ [][Next]_vars /\ Fairness



\* ------------------------------- the store-based iteration (part_001)
PayIds == 1..MaxPayments
ResponseNumbers == 1..(MaxPayments + 1)
storeOthers == <<serverVars, transportStore, now, lastRequest>>

\* part_001 lines 89-93: Array.from(elicitationStore.values()).slice(-1)[0],
\* the entry inserted last, or null (here an entry without an action)
StoredElicitation ==
    IF Len(elicitationStore) = 0
    THEN [paymentRequestId |-> NoId, action |-> "", response |-> 0]
    ELSE elicitationStore[Len(elicitationStore)]

\* Map.prototype.set, part_001 line 240: a key that is present keeps its
\* place and gets the new value, a new key goes to the end
StoreSet(store, entry) ==
    IF \E i \in 1..Len(store) : store[i].paymentRequestId = entry.paymentRequestId
    THEN [i \in 1..Len(store) |->
            IF store[i].paymentRequestId = entry.paymentRequestId
            THEN entry ELSE store[i]]
    ELSE Append(store, entry)

\* the responses stored so far are numbered in the order of their arrival
NextResponse ==
    1 + Cardinality({n \in ResponseNumbers :
                        \E i \in 1..Len(elicitationStore) :
                            elicitationStore[i].response >= n})

\* part_001 lines 236-249: a POST whose body has result.action; pid is the
\* x-payment-request-id header, NoId when there is none
StorePostElicitationResponse(pid, action) ==
    /\ NextResponse \in ResponseNumbers
    /\ elicitationStore' =
          IF pid # NoId
          THEN StoreSet(elicitationStore,
                        [paymentRequestId |-> pid, action |-> action,
                         response |-> NextResponse])
          ELSE elicitationStore
    /\ UNCHANGED <<pendingPaymentRequests, invocation, storeOthers>>

\* part_001 lines 96 and 114: the handler starts, reads the store and calls
\* requirePayment on one of its two paths
StorePostToolCall(c) ==
    /\ invocation[c].pc = "idle"
    /\ \A d \in CallIds : d < c => invocation[d].pc # "idle"
    /\ LET e == StoredElicitation
       IN invocation' = [invocation EXCEPT ![c] =
            IF e.action = "accept" /\ e.paymentRequestId # NoId
            THEN [@ EXCEPT !.pc = "reverify", !.a = ArgsOf(c)[1],
                           !.b = ArgsOf(c)[2],
                           !.storedId = e.paymentRequestId,
                           !.response = e.response]
            ELSE [@ EXCEPT !.pc = "verify", !.a = ArgsOf(c)[1],
                           !.b = ArgsOf(c)[2]]]
    /\ UNCHANGED <<elicitationStore, pendingPaymentRequests, storeOthers>>

\* the failures requirePayment can reject with: error.code and error.data
StoreFailures ==
    {[code |-> PAYMENT_REQUIRED_ERROR_CODE, paymentRequestId |-> p, hasUrl |-> u] :
        p \in PayIds \cup {NoId}, u \in BOOLEAN}
    \cup {[code |-> "other", paymentRequestId |-> NoId, hasUrl |-> FALSE]}

\* part_001 line 116 resolves, lines 142-149
StoreVerifyPaid(c) ==
    /\ invocation[c].pc = "verify"
    /\ invocation' = [invocation EXCEPT ![c] =
          [@ EXCEPT !.pc = "returned", !.paid = TRUE,
                    !.result = SumResult(invocation[c].a, invocation[c].b)]]
    /\ UNCHANGED <<elicitationStore, pendingPaymentRequests, storeOthers>>

\* part_001 line 116 rejects, lines 117-137: every failure is rethrown, a
\* payment-required one with url and id is noted first
StoreVerifyFails(c, err) ==
    /\ invocation[c].pc = "verify"
    /\ pendingPaymentRequests' =
          IF IsPaymentRequired(err.code) /\ err.hasUrl
               /\ err.paymentRequestId # NoId
          THEN pendingPaymentRequests \cup {err.paymentRequestId}
          ELSE pendingPaymentRequests
    /\ invocation' = [invocation EXCEPT ![c] =
          [@ EXCEPT !.pc = "thrown", !.result = Rethrow(err)]]
    /\ UNCHANGED <<elicitationStore, storeOthers>>

\* part_001 lines 98-101 resolve, lines 142-149
StoreReVerifyPaid(c) ==
    /\ invocation[c].pc = "reverify"
    /\ invocation' = [invocation EXCEPT ![c] =
          [@ EXCEPT !.pc = "returned", !.paid = TRUE,
                    !.result = SumResult(invocation[c].a, invocation[c].b)]]
    /\ UNCHANGED <<elicitationStore, pendingPaymentRequests, storeOthers>>

\* part_001 lines 103-111: a payment-required failure for the stored id is
\* swallowed and the handler goes on to lines 142-149, any other is rethrown
StoreReVerifyFails(c, err) ==
    /\ invocation[c].pc = "reverify"
    /\ invocation' = [invocation EXCEPT ![c] =
          IF IsPaymentRequired(err.code)
               /\ err.paymentRequestId = invocation[c].storedId
          THEN [@ EXCEPT !.pc = "returned",
                         !.result = SumResult(invocation[c].a, invocation[c].b)]
          ELSE [@ EXCEPT !.pc = "thrown", !.result = Rethrow(err)]]
    /\ UNCHANGED <<elicitationStore, pendingPaymentRequests, storeOthers>>

NextStore ==
    \/ \E pid \in PayIds \cup {NoId}, action \in {"accept", "decline"} :
         StorePostElicitationResponse(pid, action)
    \/ \E c \in CallIds : StorePostToolCall(c)
    \/ \E c \in CallIds : StoreVerifyPaid(c)
    \/ \E c \in CallIds, err \in StoreFailures : StoreVerifyFails(c, err)
    \/ \E c \in CallIds : StoreReVerifyPaid(c)
    \/ \E c \in CallIds, err \in StoreFailures : StoreReVerifyFails(c, err)

SpecStore == Init /\ [][NextStore]_vars


\* --------------------------- the transport-store iteration (part_002)
transportStoreOthers ==
    <<serverVars, elicitationStore, pendingPaymentRequests, invocation>>

\* part_002 lines 254 and 311: `session-${Date.now()}`, an id outside the
\* ids clients send, one per millisecond
GeneratedId(t) == MaxSessions + 1 + t

\* part_002 lines 196-230: validateUrlModeSupport
ValidUrlModeSupport(req) == ~req.isInit \/ req.elicitation

\* part_002 lines 254-269 and 311-326: get or create the transport of the
\* request's session id; the await of server.connect (lines 263, 320) only
\* runs promise continuations, no other request comes in between
GetOrCreate(method, header) ==
    LET sessionId == IF header # NoId THEN header ELSE GeneratedId(now)
        created == ~MapHas(transportStore, sessionId)
    IN /\ transportStore' =
             IF created
             THEN MapSet(transportStore, sessionId,
                         Cardinality(DOMAIN transportStore) + 1)
             ELSE transportStore
       /\ lastRequest' = [method |-> method, header |-> header,
                          sessionId |-> sessionId, created |-> created,
                          reply |-> "none"]

\* part_002 lines 235-303: app.post('/')
TransportStorePost(req) ==
    /\ IF ValidUrlModeSupport(req)
       THEN GetOrCreate("post", req.sid)
       ELSE /\ lastRequest' = [method |-> "post", header |-> req.sid,
                               sessionId |-> NoId, created |-> FALSE,
                               reply |-> "-32602"]
            /\ UNCHANGED transportStore
    /\ UNCHANGED <<now, transportStoreOthers>>

\* part_002 lines 306-344: app.get('/')
TransportStoreGet(header) ==
    /\ GetOrCreate("get", header)
    /\ UNCHANGED <<now, transportStoreOthers>>

\* part_002 lines 287-291 and 331-334: the close handlers of the responses
\* log and leave the store alone
TransportStoreResponseClose ==
    /\ lastRequest.method \in {"post", "get"}
    /\ lastRequest' = [lastRequest EXCEPT !.reply = "closed"]
    /\ UNCHANGED <<transportStore, now, transportStoreOthers>>

\* part_002 lines 346-356: app.delete('/')
TransportStoreDelete(header) ==
    /\ lastRequest' = [method |-> "delete", header |-> header,
                       sessionId |-> NoId, created |-> FALSE,
                       reply |-> "405"]
    /\ UNCHANGED <<transportStore, now, transportStoreOthers>>

\* a millisecond passes
TransportStoreClock ==
    /\ now < MaxClock
    /\ now' = now + 1
    /\ UNCHANGED <<transportStore, lastRequest, transportStoreOthers>>

NextTransportStore ==
    \/ \E req \in Requests : TransportStorePost(req)
    \/ \E header \in SessionIds \cup {NoId} : TransportStoreGet(header)
    \/ TransportStoreResponseClose
    \/ \E header \in SessionIds \cup {NoId} : TransportStoreDelete(header)
    \/ TransportStoreClock

SpecTransportStore == Init /\ [][NextTransportStore]_vars

\* ------------------------------------------------------------ properties
ElicitsOf(c) == {m \in sent : m.call = c}
PendingOf(c) == {p \in pending : p.call = c}
Suspended(c) == call[c].pc = "eliciting"
Settled(c) == call[c].race \notin {"none", "pending"}
Finished(c) == call[c].pc \in {"returned", "thrown"}
\* the first payment verification of c failed with payment required
FirstWasPaymentRequired(c) == Len(payReqs[c]) >= 1
\* the session is registered and its server connected (lines 40-49)
Live(sid) ==
    MapHas(serversBySession, sid) /\ serversBySession[sid] \in connected

\* C1 as stated: every call whose first verification reports payment
\* required has exactly one elicitation request sent for it, and exactly
\* one pending wait while it is suspended, whatever happened to its session
\* or to the failure's payload.
C1_ExactlyOneElicitation ==
    \A c \in CallIds :
        (FirstWasPaymentRequired(c) /\ call[c].pc # "verify1") =>
            /\ Cardinality(ElicitsOf(c)) = 1
            /\ Suspended(c) => Cardinality(PendingOf(c)) = 1

C1_StepOfFirstVerify(c) ==
    (call[c].pc = "verify1" /\ call'[c].pc # "verify1"
        /\ Len(payReqs'[c]) = 1) =>
        IF call'[c].pc = "eliciting"
        THEN /\ Live(call[c].session)
             /\ Cardinality(ElicitsOf(c)') = 1
             /\ Cardinality(PendingOf(c)') = 1
        ELSE /\ call'[c].pc = "thrown"
             /\ call'[c].result.kind = "rethrow"
             /\ ~Live(call[c].session) \/ ~call'[c].result.error.hasUrl
             /\ ElicitsOf(c)' = {}
             /\ PendingOf(c)' = {}

\* C1 amended: a call whose first verification reports payment required
\* gets at most one elicitation request: exactly one if the failure carries
\* a paymentRequestUrl and the session is still registered with a connected
\* server, none (the failure is rethrown) otherwise; while the call is
\* suspended on the elicitation exactly one pending wait exists for it, and
\* never more than one.
C1_AtMostOneElicitation ==
    /\ [](\A c \in CallIds :
            /\ Cardinality(ElicitsOf(c)) <= 1
            /\ Cardinality(PendingOf(c)) <= 1
            /\ Cardinality(ElicitsOf(c)) = 1 <=> call[c].race # "none"
            /\ Suspended(c) => Cardinality(PendingOf(c)) = 1)
    /\ [][\A c \in CallIds : C1_StepOfFirstVerify(c)]_vars

C1_Witness ==
    \E c, d \in CallIds :
        /\ Suspended(c) /\ Cardinality(ElicitsOf(c)) = 1
        /\ Cardinality(PendingOf(c)) = 1
        /\ call[d].result.kind = "rethrow" /\ FirstWasPaymentRequired(d)
        /\ ElicitsOf(d) = {}

\* C2 as stated: the re-verification after accept names the payment request
\* the first failure carried, and no call ever has more than one payment
\* request created for it.
C2_SamePaymentRequest ==
    \A c \in CallIds :
        /\ Len(call[c].verifies) = 2 =>
               call[c].verifies[2].paymentRequestId = payReqs[c][1]
        /\ Len(payReqs[c]) <= 1

\* C3: a step in which an elicitation response resumes one call leaves
\* every other call, and every other call's pending wait, as they were.
C3_ResponseResumesOnlyItsCall ==
    [][\A c, d \in CallIds :
         (c # d /\ call[c].race = "pending" /\ call'[c].race \in Actions) =>
             /\ call'[d] = call[d]
             /\ PendingOf(d)' = PendingOf(d)]_vars

\* two calls suspended on one session, the later one answered first
C3_Witness ==
    \E c, d \in CallIds :
        /\ c # d
        /\ call[c].race \in Actions
        /\ Suspended(d) /\ PendingOf(d) # {}
        /\ call[c].session = call[d].session
        /\ \E m \in ElicitsOf(c), n \in ElicitsOf(d) :
               m.inst = n.inst /\ n.msgId < m.msgId

C4_LaterEventIsDiscarded(c) ==
    Settled(c) =>
        /\ call'[c].race = call[c].race
        /\ call'[c].resumes = call[c].resumes
        /\ Finished(c) =>
               /\ call'[c].pc = call[c].pc
               /\ call'[c].result = call[c].result
        /\ (call[c].timer = "armed" /\ call'[c].timer = "fired") =>
               /\ UNCHANGED <<registry, nextMsgId, pending, sent, payReqs>>
               /\ \A d \in CallIds : d # c => call'[d] = call[d]

C5_Step(c) ==
    /\ (call[c].race = "pending" /\ call[c].timer = "armed"
           /\ call'[c].timer = "fired") =>
          /\ call[c].elapsed = TimeoutTicks
          /\ call'[c].race = "timeout"
          /\ call'[c].pc = "thrown"
          /\ call'[c].result = TimeoutThrow
    /\ call[c].race = "timeout" =>
          /\ call'[c].race = "timeout"
          /\ call'[c].pc = call[c].pc
          /\ call'[c].result = call[c].result
          /\ call'[c].resumes = call[c].resumes

\* C5: a call still suspended when the 30 s budget is over is resumed with
\* the timeout failure (no call stays suspended beyond the budget), and
\* after that a response changes neither its outcome nor its result.
C5_TimeoutThenLateResponseNoOp ==
    /\ [](\A c \in CallIds :
            call[c].race = "pending" =>
                call[c].timer = "armed" /\ call[c].elapsed <= TimeoutTicks)
    /\ [][\A c \in CallIds : C5_Step(c)]_vars

\* the timer won and the response came afterwards
C5_Witness ==
    \E c \in CallIds :
        /\ call[c].race = "timeout" /\ call[c].elicit = "resolved"
        /\ call[c].result = TimeoutThrow /\ call[c].resumes = 1

\* C6 as stated: once the handler has been resumed with the timeout
\* failure, no pending wait for its elicitation is outstanding.
C6_TimeoutRemovesPendingWait ==
    \A c \in CallIds : call[c].race = "timeout" => PendingOf(c) = {}

C7_Step(sid) ==
    (MapHas(transportsBySession, sid) /\ ~MapHas(transportsBySession', sid)) =>
        \A c \in CallIds :
            (\E p \in PendingOf(c) : p.inst = transportsBySession[sid]) =>
                /\ PendingOf(c)' = {}
                /\ call'[c].elicit = "rejected"
                /\ call[c].race = "pending" =>
                       /\ call'[c].race = "closed"
                       /\ call'[c].pc = "thrown"
                       /\ call'[c].result = ClosedThrow
                       /\ call'[c].resumes = call[c].resumes + 1

\* C7: the close of a session's channel resolves every pending wait of that
\* session in that step, each suspended call continuing once with the
\* channel-closed failure, and a call gets that failure from no other step.
C7_CloseResolvesPendingWaits ==
    /\ [][\A sid \in SessionIds : C7_Step(sid)]_vars
    /\ [][\A c \in CallIds :
            (call[c].race # "closed" /\ call'[c].race = "closed") =>
                /\ MapHas(transportsBySession, call[c].session)
                /\ ~MapHas(transportsBySession', call[c].session)]_vars

\* two calls of one session resumed by its close, before their timers
C7_Witness ==
    \E c, d \in CallIds :
        /\ c # d /\ call[c].session = call[d].session
        /\ call[c].race = "closed" /\ call[d].race = "closed"
        /\ call[c].timer = "armed" /\ call[d].timer = "armed"
        /\ call[c].resumes = 1 /\ call[d].resumes = 1

CharValue(ch) ==
    CASE ch = "0" -> 0 [] ch = "1" -> 1 [] ch = "2" -> 2 [] ch = "3" -> 3
      [] ch = "4" -> 4 [] ch = "5" -> 5 [] ch = "6" -> 6 [] ch = "7" -> 7
      [] ch = "8" -> 8 [] ch = "9" -> 9

RECURSIVE DigitsValue(_)
DigitsValue(t) ==
    IF Len(t) = 0 THEN 0
    ELSE 10 * DigitsValue(SubSeq(t, 1, Len(t) - 1))
             + CharValue(SubSeq(t, Len(t), Len(t)))

\* the number a decimal text denotes
TextValue(t) ==
    IF SubSeq(t, 1, 1) = "-" THEN 0 - DigitsValue(SubSeq(t, 2, Len(t)))
    ELSE DigitsValue(t)

\* C9: a call whose first verification succeeds has no elicitation request
\* and no pending wait, and returns the decimal text of a + b as a
\* non-error result: "5" for add(2, 3).
C9_PaidCallReturnsSum ==
    \A c \in CallIds :
        (call[c].paid /\ Len(call[c].verifies) = 1) =>
            /\ ElicitsOf(c) = {} /\ PendingOf(c) = {}
            /\ call[c].race = "none" /\ call[c].timer = "off"
            /\ payReqs[c] = <<>>
            /\ call[c].pc = "returned"
            /\ call[c].result.kind = "ok"
            /\ Len(call[c].result.text) >= 1
            /\ TextValue(call[c].result.text) = call[c].a + call[c].b
            /\ (call[c].a = 2 /\ call[c].b = 3) => call[c].result.text = "5"

C9_Witness ==
    \E c, d \in CallIds :
        /\ call[c].paid /\ Len(call[c].verifies) = 1
        /\ call[c].a = 2 /\ call[c].b = 3 /\ call[c].result.text = "5"
        /\ call[d].paid /\ Len(call[d].verifies) = 1
        /\ call[d].a + call[d].b < 0

\* C10: the handler returns a non-error result only if one of its payment
\* verifications succeeded, and that result carries a + b.
C10_SumOnlyAfterPayment ==
    \A c \in CallIds :
        /\ call[c].result.kind = "ok" =>
              /\ call[c].paid
              /\ call[c].pc = "returned"
              /\ TextValue(call[c].result.text) = call[c].a + call[c].b
        /\ (Finished(c) /\ ~call[c].paid) => call[c].result.kind # "ok"

\* paid at the re-verification after accept
C10_Witness ==
    \E c \in CallIds :
        /\ call[c].result.kind = "ok" /\ Len(call[c].verifies) = 2
        /\ call[c].race = "accept"

\* C11: a call whose elicitation was answered with decline has returned the
\* tool-level error "Payment declined. Tool cannot execute without payment.";
\* its payment was verified once only (no re-verification), it is not paid
\* and no sum was put into its result.
C11_DeclineReturnsDeclined ==
    \A c \in CallIds :
        call[c].race = "decline" =>
            /\ call[c].pc = "returned"
            /\ call[c].result = DeclinedResult
            /\ call[c].result.kind = "toolError"
            /\ call[c].result.text =
                  "Payment declined. Tool cannot execute without payment."
            /\ Len(call[c].verifies) = 1
            /\ ~call[c].paid

C11_Witness ==
    \E c \in CallIds :
        /\ call[c].race = "decline" /\ call[c].elicit = "resolved"
        /\ call[c].pc = "returned" /\ FirstWasPaymentRequired(c)

\* C12: a call whose first verification was rejected with payment required,
\* whose elicitation was accepted before the timer fired and whose
\* re-verification succeeded has returned the decimal text of a + b as a
\* non-error result: "5" for add(2, 3).
C12_AcceptThenPaidReturnsSum ==
    \A c \in CallIds :
        (call[c].race = "accept" /\ call[c].paid) =>
            /\ FirstWasPaymentRequired(c)
            /\ Len(call[c].verifies) = 2
            /\ call[c].pc = "returned"
            /\ call[c].result.kind = "ok"
            /\ Len(call[c].result.text) >= 1
            /\ TextValue(call[c].result.text) = call[c].a + call[c].b
            /\ (call[c].a = 2 /\ call[c].b = 3) => call[c].result.text = "5"

C12_Witness ==
    \E c \in CallIds :
        /\ call[c].race = "accept" /\ call[c].paid
        /\ call[c].timer # "fired"
        /\ call[c].a = 2 /\ call[c].b = 3 /\ call[c].result.text = "5"

\* C13: a call whose re-verification after an accept fails has returned the
\* tool-level error "Payment not completed ..." and stays returned; every
\* call verifies its payment at most twice and sends at most one
\* elicitation request.
C13_Step(c) ==
    (call[c].pc = "returned" /\ call[c].result = NotCompletedResult) =>
        /\ call'[c].pc = "returned" /\ call'[c].result = NotCompletedResult
        /\ call'[c].verifies = call[c].verifies
        /\ {m \in sent' : m.call = c} = ElicitsOf(c)

C13_NoRetryAfterFailedReVerify ==
    /\ [][\A c \in CallIds : C13_Step(c)]_vars
    /\ [](\A c \in CallIds :
            /\ Len(call[c].verifies) <= 2
            /\ Cardinality(ElicitsOf(c)) <= 1
            /\ (call[c].race = "accept" /\ Finished(c) /\ ~call[c].paid) =>
                  /\ call[c].pc = "returned"
                  /\ call[c].result = NotCompletedResult
                  /\ call[c].result.kind = "toolError"
                  /\ Len(call[c].verifies) = 2
                  /\ Cardinality(ElicitsOf(c)) = 1)

C13_Witness ==
    \E c \in CallIds :
        /\ call[c].race = "accept" /\ call[c].pc = "returned"
        /\ ~call[c].paid /\ call[c].result = NotCompletedResult
        /\ Len(payReqs[c]) = 2

\* the channel of a generated session id is open / has closed
ChannelOpen(sid) == MapHas(handshake, sid) /\ handshake[sid].inst \in connected
ChannelClosed(sid) == MapHas(handshake, sid) /\ handshake[sid].inst \notin connected

\* C14: an initialization request without the elicitation capability takes
\* the -32602 branch whatever its session header and whatever the registry
\* holds; the step that writes that envelope changes neither map, and no
\* session, registered or not, was ever opened by such a request.
C14_Step ==
    (lastReply' = "-32602" /\ lastReply # "-32602") =>
        UNCHANGED <<serversBySession, transportsBySession, connected,
                    usedSids, handshake, nextInst>>

C14_NoCapabilityNoSession ==
    /\ [][C14_Step]_vars
    /\ [](/\ \A req \in Requests :
                (req.isInit /\ ~req.elicitation) =>
                    Route(req) = "capability_error"
          /\ \A sid \in DOMAIN handshake : handshake[sid].elicitation
          /\ DOMAIN serversBySession \subseteq DOMAIN handshake
          /\ DOMAIN transportsBySession \subseteq DOMAIN handshake)

\* a rejected initialization with a live and a closed session around
C14_Witness ==
    /\ lastReply = "-32602"
    /\ \E sid \in SessionIds : ChannelOpen(sid) /\ MapHas(transportsBySession, sid)
    /\ \E sid \in SessionIds : ChannelClosed(sid)

\* C15: while the channel of a generated session id is open the id resolves
\* in both maps to the one instance it was registered with, and no step
\* changes what a registered id resolves to; once the channel has closed the
\* id is in neither map, it never comes back, and a request naming it takes
\* the Bad Request branch.
C15_Step(sid) ==
    /\ (MapHas(transportsBySession, sid) /\ MapHas(transportsBySession', sid)) =>
           transportsBySession'[sid] = transportsBySession[sid]
    /\ (MapHas(serversBySession, sid) /\ MapHas(serversBySession', sid)) =>
           serversBySession'[sid] = serversBySession[sid]
    /\ ChannelClosed(sid) =>
           /\ ~MapHas(transportsBySession', sid)
           /\ ~MapHas(serversBySession', sid)

C16_MapsHaveTheSameKeys ==
    /\ DOMAIN serversBySession = DOMAIN transportsBySession
    /\ \A sid \in DOMAIN serversBySession :
           serversBySession[sid] = transportsBySession[sid]

\* one session has been created and closed, another one is registered
C16_Witness ==
    /\ \E sid \in SessionIds : ChannelClosed(sid)
    /\ \E sid \in SessionIds :
           MapHas(serversBySession, sid) /\ MapHas(transportsBySession, sid)
    /\ \E c \in CallIds : call[c].race = "closed"

\* C17: a request that is not an initialization and whose session id is
\* missing or not registered takes the -32000 branch; the step that writes
\* that envelope changes neither map and constructs no instance.
C17_Step ==
    (lastReply' = "-32000" /\ lastReply # "-32000") =>
        UNCHANGED <<serversBySession, transportsBySession, connected,
                    usedSids, handshake, nextInst>>

C17_UnknownSessionIsBadRequest ==
    /\ [][C17_Step]_vars
    /\ [](\A req \in Requests :
            (~req.isInit /\ (req.sid = NoId
                               \/ ~MapHas(transportsBySession, req.sid)
                               \/ ~MapHas(serversBySession, req.sid))) =>
                Route(req) = "bad_request")

\* a Bad Request answered while a session that was closed is around
C17_Witness ==
    /\ lastReply = "-32000"
    /\ \E sid \in SessionIds : ChannelClosed(sid)
    /\ \E c \in CallIds : call[c].pc = "eliciting"

\* C18 as stated: every request that carries an unregistered session id,
\* initialization requests included, takes the Bad Request branch.
C18_UnknownSessionAlwaysBadRequest ==
    \A req \in Requests :
        (req.sid # NoId /\ ~MapHas(transportsBySession, req.sid)) =>
            Route(req) = "bad_request"

\* C18: no instance is registered under two session ids; a request that
\* carries an unregistered session id is rejected, with Bad Request unless
\* it is an initialization request without the elicitation capability,
\* which gets the -32602 envelope; only an initialization request without a
\* session header opens a session, and the id a step registers was never
\* handed out before.
C18_Step(sid) ==
    (MapHas(transportsBySession', sid) /\ ~MapHas(transportsBySession, sid)) =>
        /\ sid \notin usedSids
        /\ sid \in FreshSids
        /\ nextInst' = nextInst + 1
        /\ transportsBySession'[sid] = nextInst

C18_AbsentIdNeverRegistered ==
    /\ [][\A sid \in SessionIds : C18_Step(sid)]_vars
    /\ [](/\ \A s1, s2 \in DOMAIN transportsBySession :
                s1 # s2 => transportsBySession[s1] # transportsBySession[s2]
          /\ \A req \in Requests :
                /\ (req.sid # NoId /\ ~MapHas(transportsBySession, req.sid)) =>
                      Route(req) = IF req.isInit /\ ~req.elicitation
                                   THEN "capability_error" ELSE "bad_request"
                /\ Route(req) = "initialize" =>
                      (req.sid = NoId /\ req.isInit))

\* a second session registered after the first one was closed
C18_Witness ==
    \E s1, s2 \in SessionIds :
        /\ ChannelClosed(s1) /\ ~MapHas(transportsBySession, s1)
        /\ MapHas(transportsBySession, s2) /\ handshake[s2].inst > handshake[s1].inst
        /\ lastReply = "-32000"

\* C19: a session whose initialization has been acknowledged and whose
\* channel is open is registered in both maps, so a request naming it takes
\* the session branch; the registration is there before the acknowledgement.
C19_Step(sid) ==
    (Acked(sid)' /\ ~Acked(sid)) =>
        /\ MapHas(serversBySession, sid)
        /\ MapHas(transportsBySession, sid)

C19_RegisteredBeforeAcknowledged ==
    /\ [][\A sid \in SessionIds : C19_Step(sid)]_vars
    /\ [](\A sid \in SessionIds :
            (Acked(sid) /\ ChannelOpen(sid)) =>
                /\ MapHas(serversBySession, sid)
                /\ MapHas(transportsBySession, sid)
                /\ Route(SessionRequest(sid)) = "session")

\* a tool call accepted on an acknowledged session
C19_Witness ==
    \E sid \in SessionIds, c \in CallIds :
        /\ Acked(sid) /\ ChannelOpen(sid)
        /\ call[c].pc # "idle" /\ call[c].session = sid

\* C20: while a call is suspended on its elicitation, the next tool call is
\* accepted on every live acknowledged session (the suspended call's own
\* session included), every other call's verification can complete, every
\* other suspended call can be answered, and a new session can be opened;
\* a step that moves another call leaves the suspended call suspended.
C20_Step(c) ==
    (Suspended(c) /\ \E d \in CallIds \ {c} : call'[d] # call[d]
                   /\ call'[c] # call[c]) =>
        \/ ~MapHas(transportsBySession', call[c].session)
        \/ call'[c].elapsed # call[c].elapsed

C20_OthersProceedWhileSuspended ==
    /\ [][\A c \in CallIds : C20_Step(c)]_vars
    /\ [](\A c \in CallIds : Suspended(c) =>
            /\ \A d \in CallIds \ {c} :
                 /\ (call[d].pc = "idle"
                       /\ \A e \in CallIds : e < d => call[e].pc # "idle") =>
                        \A sid \in SessionIds :
                            (Acked(sid) /\ MapHas(transportsBySession, sid)) =>
                                ENABLED PostToolCall(d, sid)
                 /\ call[d].pc = "verify1" => ENABLED FirstVerifyPaid(d)
                 /\ call[d].pc = "verify2" => ENABLED ReVerifyPaid(d)
                 /\ \A p \in PendingOf(d) :
                        (MapHas(transportsBySession, call[d].session)
                           /\ call[d].race = "pending") =>
                            ENABLED (/\ PostElicitationResponse(
                                           call[d].session, p.msgId, "accept")
                                     /\ call'[d].pc = "verify2"
                                     /\ call'[c] = call[c])
            /\ nextInst <= MaxSessions =>
                 ENABLED PostInitialize([sid |-> NoId, isInit |-> TRUE,
                                         elicitation |-> TRUE]))

\* a call still suspended while a later call of the same session, whose
\* elicitation was sent after the suspended one's, has run to its sum
C20_Witness ==
    \E c, d \in CallIds :
        /\ c # d /\ Suspended(c) /\ call[d].session = call[c].session
        /\ call[d].requestId > call[c].requestId
        /\ \E m \in ElicitsOf(c), n \in ElicitsOf(d) :
               m.inst = n.inst /\ n.msgId > m.msgId
        /\ call[d].pc = "returned" /\ call[d].result.kind = "ok"

\* C21: every call that ended declined, unpaid after an accept, by the
\* elicitation timeout or by the close of its channel has returned a tool
\* result that is an error with a text, and has not thrown.
C21_TerminalOutcomesAreToolErrors ==
    \A c \in CallIds :
        (\/ call[c].race \in {"decline", "cancel", "timeout", "closed"}
         \/ (call[c].race = "accept" /\ Finished(c) /\ ~call[c].paid)) =>
            /\ call[c].pc = "returned"
            /\ call[c].result.kind = "toolError"
            /\ Len(call[c].result.text) >= 1

\* C22: a first verification that fails with a code other than payment
\* required can only leave the handler as that same failure, whatever else
\* the failure carries; a call that threw such a failure has sent no
\* elicitation request, created no payment request and started no timer.
C22_Step(c, err) ==
    (~IsPaymentRequired(err.code) /\ FirstVerifyRethrow(c, err)) =>
        /\ call'[c].pc = "thrown"
        /\ call'[c].result.kind = "rethrow"
        /\ call'[c].result.error = err
        /\ sent' = sent /\ pending' = pending

C22_OtherFailureRethrown ==
    /\ [][\A c \in CallIds, err \in Failures : C22_Step(c, err)]_vars
    /\ [](\A c \in CallIds :
            /\ call[c].pc = "verify1" =>
                 \A err \in Failures :
                     ~IsPaymentRequired(err.code) =>
                         /\ ENABLED FirstVerifyRethrow(c, err)
                         /\ ~ENABLED FirstVerifyElicit(c, err)
            /\ (call[c].result.kind = "rethrow"
                  /\ ~IsPaymentRequired(call[c].result.text)) =>
                 /\ call[c].pc = "thrown"
                 /\ call[c].result.error \in Failures
                 /\ call[c].result.error.code = call[c].result.text
                 /\ ElicitsOf(c) = {} /\ PendingOf(c) = {}
                 /\ payReqs[c] = <<>>
                 /\ call[c].race = "none" /\ call[c].timer = "off"
                 /\ Len(call[c].verifies) = 1)

\* a non-payment failure that carries a payment request url was rethrown
\* on a live session
C22_Witness ==
    \E c \in CallIds :
        /\ call[c].result.kind = "rethrow"
        /\ call[c].result.error = [code |-> "other", hasUrl |-> TRUE]
        /\ Live(call[c].session)

\* C23: after a POST whose handling threw into the catch, the -32603
\* envelope was written by the route exactly when the headers had not been
\* sent; when they had been sent the route wrote nothing.  The route writes
\* -32603 for no other reason, and the fault changes nothing else.
C23_Step ==
    (lastFault' # "none" /\ <<lastFault', lastReply'>> # <<lastFault, lastReply>>) =>
        UNCHANGED <<registry, nextMsgId, call, pending, sent, payReqs>>

C23_InternalErrorIffHeadersNotSent ==
    /\ [][C23_Step]_vars
    /\ [](/\ lastFault = "before_headers" => lastReply = "-32603"
          /\ lastFault = "after_headers" => lastReply = "none"
          /\ lastReply = "-32603" => lastFault = "before_headers")

\* a fault after the headers were sent, with a call suspended
C23_Witness ==
    /\ lastFault = "after_headers" /\ lastReply = "none"
    /\ \E c \in CallIds : Suspended(c)

\* C24: a payment-required failure of the first verification leads to the
\* elicitation exactly when it carries a paymentRequestUrl and the call's
\* session is registered with a connected server at that moment; in every
\* other case only the rethrow of that same failure is possible, and a
\* call that rethrew has no elicitation request, no pending wait and no
\* timer.
C24_Step(c, err) ==
    /\ FirstVerifyElicit(c, err) =>
         /\ IsPaymentRequired(err.code) /\ err.hasUrl
         /\ Live(call[c].session)
         /\ call'[c].timer = "armed"
    /\ (IsPaymentRequired(err.code) /\ FirstVerifyRethrow(c, err)) =>
         /\ ~(err.hasUrl /\ Live(call[c].session))
         /\ call'[c].result.error = err
         /\ sent' = sent /\ pending' = pending
         /\ call'[c].timer = "off"

C24_ElicitationPreconditions ==
    /\ [][\A c \in CallIds, err \in Failures : C24_Step(c, err)]_vars
    /\ [](\A c \in CallIds :
            /\ call[c].pc = "verify1" =>
                 \A err \in Failures :
                     IsPaymentRequired(err.code) =>
                         /\ (ENABLED FirstVerifyElicit(c, err)) <=>
                                (err.hasUrl /\ Live(call[c].session))
                         /\ (ENABLED FirstVerifyRethrow(c, err)) <=>
                                ~(err.hasUrl /\ Live(call[c].session))
            /\ (call[c].result.kind = "rethrow"
                  /\ IsPaymentRequired(call[c].result.text)) =>
                 /\ call[c].pc = "thrown"
                 /\ IsPaymentRequired(call[c].result.error.code)
                 /\ ElicitsOf(c) = {} /\ PendingOf(c) = {}
                 /\ call[c].race = "none" /\ call[c].timer = "off")

\* the session was closed while the first verification was awaited: the
\* payment error, url and all, was rethrown
C24_Witness ==
    \E c \in CallIds :
        /\ call[c].result.kind = "rethrow"
        /\ call[c].result.error =
              [code |-> PAYMENT_REQUIRED_ERROR_CODE, hasUrl |-> TRUE]
        /\ ~MapHas(serversBySession, call[c].session)
        /\ ElicitsOf(c) = {}

\* values of result.action other than 'accept': the two the protocol
\* names, a value it does not name, and none
NonAcceptActions == {"decline", "cancel", "reject", ""}

\* C25: a call whose elicitation was answered with an action other than
\* 'accept' has returned the "Payment declined" tool error after a single
\* verification; and for every suspended call, continuing with any action
\* value other than 'accept' gives that same result without another
\* verification.
C25_NonAcceptIsDeclined ==
    \A c \in CallIds :
        /\ (call[c].elicit = "resolved" /\ call[c].race \in Actions \ {"accept"}) =>
              /\ call[c].pc = "returned"
              /\ call[c].result = DeclinedResult
              /\ Len(call[c].verifies) = 1
              /\ ~call[c].paid
        /\ (Suspended(c) /\ call[c].race = "pending") =>
              \A action \in NonAcceptActions :
                  LET f == RaceSettle(call[c], action)
                  IN /\ f.pc = "returned"
                     /\ f.result = DeclinedResult
                     /\ f.verifies = call[c].verifies
                     /\ ~f.paid

\* a cancelled elicitation
C25_Witness ==
    \E c \in CallIds :
        /\ call[c].race = "cancel" /\ call[c].elicit = "resolved"
        /\ call[c].result = DeclinedResult

\* C26: a re-verification that fails, with payment required or with any
\* other failure, can only end the call with the "Payment not completed"
\* tool error; a call whose elicitation was accepted never ends by
\* rethrowing a failure.
C26_Step(c, err) ==
    ReVerifyFails(c, err) =>
        /\ call'[c].pc = "returned"
        /\ call'[c].result = NotCompletedResult

C26_ReVerifyFailureNeverPropagates ==
    /\ [][\A c \in CallIds, err \in Failures : C26_Step(c, err)]_vars
    /\ [](\A c \in CallIds :
            /\ call[c].pc = "verify2" =>
                 \A err \in Failures :
                     ENABLED (/\ ReVerifyFails(c, err)
                              /\ call'[c].result = NotCompletedResult)
            /\ call[c].race = "accept" =>
                 /\ call[c].result.kind \in {"none", "ok", "toolError"}
                 /\ call[c].pc \in {"verify2", "returned"}
            /\ (call[c].race = "accept" /\ call[c].pc = "returned"
                  /\ ~call[c].paid) =>
                 call[c].result = NotCompletedResult)

\* the re-verification failed with a failure that is not payment required:
\* no second payment request was created
C26_Witness ==
    \E c \in CallIds :
        /\ call[c].race = "accept" /\ call[c].pc = "returned"
        /\ call[c].result = NotCompletedResult
        /\ Len(call[c].verifies) = 2 /\ Len(payReqs[c]) = 1

\* C27: no two tool calls of part_001 took the accepted path on the
\* strength of the same stored response, and a response a finished call
\* has used is no longer in the store.
C27_StoredAcceptConsumedOnce ==
    /\ \A c, d \in CallIds :
          (c # d /\ invocation[c].response # 0) =>
              invocation[d].response # invocation[c].response
    /\ \A c \in CallIds :
          (invocation[c].pc \in {"returned", "thrown"}
             /\ invocation[c].response # 0) =>
              \A i \in 1..Len(elicitationStore) :
                  elicitationStore[i].response # invocation[c].response

\* C28: an invocation of the add handler of part_001 that returned the sum
\* had a payment verification succeed.
C28_StoreSumOnlyAfterPayment ==
    \A c \in CallIds :
        invocation[c].result.kind = "ok" => invocation[c].paid

\* C29: in part_002 a POST that passed validation or a GET, whose session
\* header is missing or not a key of transportStore, registers a new entry
\* (under the header's id or a generated one) whether or not it is an
\* initialization; and no step removes a key of transportStore.
C29_Step ==
    /\ DOMAIN transportStore \subseteq DOMAIN transportStore'
    /\ (/\ lastRequest' # lastRequest
        /\ lastRequest'.method \in {"post", "get"}
        /\ lastRequest'.reply = "none"
        /\ \/ lastRequest'.header = NoId
           \/ ~MapHas(transportStore, lastRequest'.header)) =>
           /\ lastRequest'.created
           /\ ~MapHas(transportStore, lastRequest'.sessionId)
           /\ MapHas(transportStore', lastRequest'.sessionId)

C29_EveryUnknownRequestRegisters == [][C29_Step]_vars

====
